---- MODULE Spec2Model ----
(***************************************************************************)
(* State-machine model of app.py, the SMS categorization API.              *)
(*                                                                         *)
(* A Python str is the sequence of the code points of its characters:      *)
(* Text("Rs 5") is <<82, 115, 32, 53>>, 8377 is the rupee sign U+20B9.     *)
(* The character classes and case mappings are those of the Unicode        *)
(* database of CPython 3.11 (Unicode 14.0).  Amounts (Python floats with   *)
(* at most two decimals) are counted in hundredths.  Texts the program     *)
(* only hands on (error messages, category names) are TLA+ strings.        *)
(***************************************************************************)
EXTENDS Integers, Sequences, FiniteSets, TLC

VARIABLES
    phase,       \* position in the module-level load block (lines 17-25)
    model,       \* global `model`
    vectorizer,  \* global `vectorizer`
    pc,          \* per request thread: position inside categorize_sms
    request,     \* per request thread: the request being served
    locals,      \* per request thread: local variables of categorize_sms
    calls,       \* per request thread: functions the handler has called
    resp,        \* per request thread: what the handler returned
    input,       \* argument handed to a pure function
    output,      \* value it returned
    called       \* which pure function produced `output`

vars == <<phase, model, vectorizer, pc, request, locals, calls, resp,
          input, output, called>>

serverVars == <<phase, model, vectorizer, pc, request, locals, calls, resp>>
pureVars == <<input, output, called>>

(***************************************************************************)
(* str literals.                                                           *)
(***************************************************************************)
None == "None"

\* chr(32) .. chr(95)
AsciiTo95 == " !\"#$%&'()*+,-./0123456789:;<=>?@ABCDEFGHIJKLMNOPQRSTUVWXYZ[\\]^_"

\* chr(97) .. chr(126)
AsciiFrom97 == "abcdefghijklmnopqrstuvwxyz{|}~"

\* ord(ch) of a printable ASCII character other than the grave accent.
ord(ch) ==
    LET low == {i \in 1..Len(AsciiTo95) : SubSeq(AsciiTo95, i, i) = ch}
    IN IF low # {} THEN 31 + (CHOOSE i \in low : TRUE)
       ELSE 96 + (CHOOSE i \in 1..Len(AsciiFrom97) : SubSeq(AsciiFrom97, i, i) = ch)

\* The str written as an ASCII literal.
Text(literal) == [i \in 1..Len(literal) |-> ord(SubSeq(literal, i, i))]

Range(s) == {s[i] : i \in DOMAIN s}

Min(S) == CHOOSE x \in S : \A y \in S : x <= y

Max(S) == CHOOSE x \in S : \A y \in S : y <= x

RECURSIVE Flatten(_)
Flatten(ws) == IF ws = <<>> THEN <<>> ELSE Head(ws) \o Flatten(Tail(ws))

Comma == ord(",")

Dot == ord(".")

Space == ord(" ")

Underscore == ord("_")

(***************************************************************************)
(* Character classes of str patterns and str methods.  Each table lists    *)
(* the code points above ASCII as ranges <<first, last>>.                  *)
(***************************************************************************)
InRanges(c, R) == \E i \in DOMAIN R : R[i][1] <= c /\ c <= R[i][2]

\* Whitespace above ASCII: U+0085, U+00A0, U+1680, U+2000-200A, ...
SpaceRanges ==
    <<
       <<133,133>>, <<160,160>>, <<5760,5760>>, <<8192,8202>>, <<8232,8233>>, <<8239,8239>>, <<8287,8287>>, <<12288,12288>>
    >>

\* \s of a str pattern, and the separators of str.split(): \t \n \v \f \r,
\* U+001C-001F, the space, and the whitespace above ASCII.
IsSpace(c) ==
    IF c < 128 THEN c \in (9..13) \cup (28..32) ELSE InRanges(c, SpaceRanges)

\* Decimal digits (category Nd) above ASCII; each range starts at a zero and
\* holds whole runs 0..9.
DecimalRanges ==
    <<
       <<1632,1641>>, <<1776,1785>>, <<1984,1993>>, <<2406,2415>>, <<2534,2543>>, <<2662,2671>>, <<2790,2799>>, <<2918,2927>>,
       <<3046,3055>>, <<3174,3183>>, <<3302,3311>>, <<3430,3439>>, <<3558,3567>>, <<3664,3673>>, <<3792,3801>>, <<3872,3881>>,
       <<4160,4169>>, <<4240,4249>>, <<6112,6121>>, <<6160,6169>>, <<6470,6479>>, <<6608,6617>>, <<6784,6793>>, <<6800,6809>>,
       <<6992,7001>>, <<7088,7097>>, <<7232,7241>>, <<7248,7257>>, <<42528,42537>>, <<43216,43225>>, <<43264,43273>>, <<43472,43481>>,
       <<43504,43513>>, <<43600,43609>>, <<44016,44025>>, <<65296,65305>>, <<66720,66729>>, <<68912,68921>>, <<69734,69743>>, <<69872,69881>>,
       <<69942,69951>>, <<70096,70105>>, <<70384,70393>>, <<70736,70745>>, <<70864,70873>>, <<71248,71257>>, <<71360,71369>>, <<71472,71481>>,
       <<71904,71913>>, <<72016,72025>>, <<72784,72793>>, <<73040,73049>>, <<73120,73129>>, <<92768,92777>>, <<92864,92873>>, <<93008,93017>>,
       <<120782,120831>>, <<123200,123209>>, <<123632,123641>>, <<125264,125273>>, <<130032,130041>>
    >>

\* \d of a str pattern.
IsDigit(c) ==
    IF c < 128 THEN c \in 48..57 ELSE InRanges(c, DecimalRanges)

\* The value float() gives the decimal digit c.
DigitVal(c) ==
    IF c < 128 THEN c - 48
    ELSE LET i == CHOOSE i \in DOMAIN DecimalRanges :
                      DecimalRanges[i][1] <= c /\ c <= DecimalRanges[i][2]
         IN (c - DecimalRanges[i][1]) % 10

\* Letters and numeric characters above ASCII (str.isalnum).
AlnumRanges ==
    <<
       <<170,170>>, <<178,179>>, <<181,181>>, <<185,186>>, <<188,190>>, <<192,214>>, <<216,246>>, <<248,705>>,
       <<710,721>>, <<736,740>>, <<748,748>>, <<750,750>>, <<880,884>>, <<886,887>>, <<890,893>>, <<895,895>>,
       <<902,902>>, <<904,906>>, <<908,908>>, <<910,929>>, <<931,1013>>, <<1015,1153>>, <<1162,1327>>, <<1329,1366>>,
       <<1369,1369>>, <<1376,1416>>, <<1488,1514>>, <<1519,1522>>, <<1568,1610>>, <<1632,1641>>, <<1646,1647>>, <<1649,1747>>,
       <<1749,1749>>, <<1765,1766>>, <<1774,1788>>, <<1791,1791>>, <<1808,1808>>, <<1810,1839>>, <<1869,1957>>, <<1969,1969>>,
       <<1984,2026>>, <<2036,2037>>, <<2042,2042>>, <<2048,2069>>, <<2074,2074>>, <<2084,2084>>, <<2088,2088>>, <<2112,2136>>,
       <<2144,2154>>, <<2160,2183>>, <<2185,2190>>, <<2208,2249>>, <<2308,2361>>, <<2365,2365>>, <<2384,2384>>, <<2392,2401>>,
       <<2406,2415>>, <<2417,2432>>, <<2437,2444>>, <<2447,2448>>, <<2451,2472>>, <<2474,2480>>, <<2482,2482>>, <<2486,2489>>,
       <<2493,2493>>, <<2510,2510>>, <<2524,2525>>, <<2527,2529>>, <<2534,2545>>, <<2548,2553>>, <<2556,2556>>, <<2565,2570>>,
       <<2575,2576>>, <<2579,2600>>, <<2602,2608>>, <<2610,2611>>, <<2613,2614>>, <<2616,2617>>, <<2649,2652>>, <<2654,2654>>,
       <<2662,2671>>, <<2674,2676>>, <<2693,2701>>, <<2703,2705>>, <<2707,2728>>, <<2730,2736>>, <<2738,2739>>, <<2741,2745>>,
       <<2749,2749>>, <<2768,2768>>, <<2784,2785>>, <<2790,2799>>, <<2809,2809>>, <<2821,2828>>, <<2831,2832>>, <<2835,2856>>,
       <<2858,2864>>, <<2866,2867>>, <<2869,2873>>, <<2877,2877>>, <<2908,2909>>, <<2911,2913>>, <<2918,2927>>, <<2929,2935>>,
       <<2947,2947>>, <<2949,2954>>, <<2958,2960>>, <<2962,2965>>, <<2969,2970>>, <<2972,2972>>, <<2974,2975>>, <<2979,2980>>,
       <<2984,2986>>, <<2990,3001>>, <<3024,3024>>, <<3046,3058>>, <<3077,3084>>, <<3086,3088>>, <<3090,3112>>, <<3114,3129>>,
       <<3133,3133>>, <<3160,3162>>, <<3165,3165>>, <<3168,3169>>, <<3174,3183>>, <<3192,3198>>, <<3200,3200>>, <<3205,3212>>,
       <<3214,3216>>, <<3218,3240>>, <<3242,3251>>, <<3253,3257>>, <<3261,3261>>, <<3293,3294>>, <<3296,3297>>, <<3302,3311>>,
       <<3313,3314>>, <<3332,3340>>, <<3342,3344>>, <<3346,3386>>, <<3389,3389>>, <<3406,3406>>, <<3412,3414>>, <<3416,3425>>,
       <<3430,3448>>, <<3450,3455>>, <<3461,3478>>, <<3482,3505>>, <<3507,3515>>, <<3517,3517>>, <<3520,3526>>, <<3558,3567>>,
       <<3585,3632>>, <<3634,3635>>, <<3648,3654>>, <<3664,3673>>, <<3713,3714>>, <<3716,3716>>, <<3718,3722>>, <<3724,3747>>,
       <<3749,3749>>, <<3751,3760>>, <<3762,3763>>, <<3773,3773>>, <<3776,3780>>, <<3782,3782>>, <<3792,3801>>, <<3804,3807>>,
       <<3840,3840>>, <<3872,3891>>, <<3904,3911>>, <<3913,3948>>, <<3976,3980>>, <<4096,4138>>, <<4159,4169>>, <<4176,4181>>,
       <<4186,4189>>, <<4193,4193>>, <<4197,4198>>, <<4206,4208>>, <<4213,4225>>, <<4238,4238>>, <<4240,4249>>, <<4256,4293>>,
       <<4295,4295>>, <<4301,4301>>, <<4304,4346>>, <<4348,4680>>, <<4682,4685>>, <<4688,4694>>, <<4696,4696>>, <<4698,4701>>,
       <<4704,4744>>, <<4746,4749>>, <<4752,4784>>, <<4786,4789>>, <<4792,4798>>, <<4800,4800>>, <<4802,4805>>, <<4808,4822>>,
       <<4824,4880>>, <<4882,4885>>, <<4888,4954>>, <<4969,4988>>, <<4992,5007>>, <<5024,5109>>, <<5112,5117>>, <<5121,5740>>,
       <<5743,5759>>, <<5761,5786>>, <<5792,5866>>, <<5870,5880>>, <<5888,5905>>, <<5919,5937>>, <<5952,5969>>, <<5984,5996>>,
       <<5998,6000>>, <<6016,6067>>, <<6103,6103>>, <<6108,6108>>, <<6112,6121>>, <<6128,6137>>, <<6160,6169>>, <<6176,6264>>,
       <<6272,6276>>, <<6279,6312>>, <<6314,6314>>, <<6320,6389>>, <<6400,6430>>, <<6470,6509>>, <<6512,6516>>, <<6528,6571>>,
       <<6576,6601>>, <<6608,6618>>, <<6656,6678>>, <<6688,6740>>, <<6784,6793>>, <<6800,6809>>, <<6823,6823>>, <<6917,6963>>,
       <<6981,6988>>, <<6992,7001>>, <<7043,7072>>, <<7086,7141>>, <<7168,7203>>, <<7232,7241>>, <<7245,7293>>, <<7296,7304>>,
       <<7312,7354>>, <<7357,7359>>, <<7401,7404>>, <<7406,7411>>, <<7413,7414>>, <<7418,7418>>, <<7424,7615>>, <<7680,7957>>,
       <<7960,7965>>, <<7968,8005>>, <<8008,8013>>, <<8016,8023>>, <<8025,8025>>, <<8027,8027>>, <<8029,8029>>, <<8031,8061>>,
       <<8064,8116>>, <<8118,8124>>, <<8126,8126>>, <<8130,8132>>, <<8134,8140>>, <<8144,8147>>, <<8150,8155>>, <<8160,8172>>,
       <<8178,8180>>, <<8182,8188>>, <<8304,8305>>, <<8308,8313>>, <<8319,8329>>, <<8336,8348>>, <<8450,8450>>, <<8455,8455>>,
       <<8458,8467>>, <<8469,8469>>, <<8473,8477>>, <<8484,8484>>, <<8486,8486>>, <<8488,8488>>, <<8490,8493>>, <<8495,8505>>,
       <<8508,8511>>, <<8517,8521>>, <<8526,8526>>, <<8528,8585>>, <<9312,9371>>, <<9450,9471>>, <<10102,10131>>, <<11264,11492>>,
       <<11499,11502>>, <<11506,11507>>, <<11517,11517>>, <<11520,11557>>, <<11559,11559>>, <<11565,11565>>, <<11568,11623>>, <<11631,11631>>,
       <<11648,11670>>, <<11680,11686>>, <<11688,11694>>, <<11696,11702>>, <<11704,11710>>, <<11712,11718>>, <<11720,11726>>, <<11728,11734>>,
       <<11736,11742>>, <<11823,11823>>, <<12293,12295>>, <<12321,12329>>, <<12337,12341>>, <<12344,12348>>, <<12353,12438>>, <<12445,12447>>,
       <<12449,12538>>, <<12540,12543>>, <<12549,12591>>, <<12593,12686>>, <<12690,12693>>, <<12704,12735>>, <<12784,12799>>, <<12832,12841>>,
       <<12872,12879>>, <<12881,12895>>, <<12928,12937>>, <<12977,12991>>, <<13312,19903>>, <<19968,42124>>, <<42192,42237>>, <<42240,42508>>,
       <<42512,42539>>, <<42560,42606>>, <<42623,42653>>, <<42656,42735>>, <<42775,42783>>, <<42786,42888>>, <<42891,42954>>, <<42960,42961>>,
       <<42963,42963>>, <<42965,42969>>, <<42994,43009>>, <<43011,43013>>, <<43015,43018>>, <<43020,43042>>, <<43056,43061>>, <<43072,43123>>,
       <<43138,43187>>, <<43216,43225>>, <<43250,43255>>, <<43259,43259>>, <<43261,43262>>, <<43264,43301>>, <<43312,43334>>, <<43360,43388>>,
       <<43396,43442>>, <<43471,43481>>, <<43488,43492>>, <<43494,43518>>, <<43520,43560>>, <<43584,43586>>, <<43588,43595>>, <<43600,43609>>,
       <<43616,43638>>, <<43642,43642>>, <<43646,43695>>, <<43697,43697>>, <<43701,43702>>, <<43705,43709>>, <<43712,43712>>, <<43714,43714>>,
       <<43739,43741>>, <<43744,43754>>, <<43762,43764>>, <<43777,43782>>, <<43785,43790>>, <<43793,43798>>, <<43808,43814>>, <<43816,43822>>,
       <<43824,43866>>, <<43868,43881>>, <<43888,44002>>, <<44016,44025>>, <<44032,55203>>, <<55216,55238>>, <<55243,55291>>, <<63744,64109>>,
       <<64112,64217>>, <<64256,64262>>, <<64275,64279>>, <<64285,64285>>, <<64287,64296>>, <<64298,64310>>, <<64312,64316>>, <<64318,64318>>,
       <<64320,64321>>, <<64323,64324>>, <<64326,64433>>, <<64467,64829>>, <<64848,64911>>, <<64914,64967>>, <<65008,65019>>, <<65136,65140>>,
       <<65142,65276>>, <<65296,65305>>, <<65313,65338>>, <<65345,65370>>, <<65382,65470>>, <<65474,65479>>, <<65482,65487>>, <<65490,65495>>,
       <<65498,65500>>, <<65536,65547>>, <<65549,65574>>, <<65576,65594>>, <<65596,65597>>, <<65599,65613>>, <<65616,65629>>, <<65664,65786>>,
       <<65799,65843>>, <<65856,65912>>, <<65930,65931>>, <<66176,66204>>, <<66208,66256>>, <<66273,66299>>, <<66304,66339>>, <<66349,66378>>,
       <<66384,66421>>, <<66432,66461>>, <<66464,66499>>, <<66504,66511>>, <<66513,66517>>, <<66560,66717>>, <<66720,66729>>, <<66736,66771>>,
       <<66776,66811>>, <<66816,66855>>, <<66864,66915>>, <<66928,66938>>, <<66940,66954>>, <<66956,66962>>, <<66964,66965>>, <<66967,66977>>,
       <<66979,66993>>, <<66995,67001>>, <<67003,67004>>, <<67072,67382>>, <<67392,67413>>, <<67424,67431>>, <<67456,67461>>, <<67463,67504>>,
       <<67506,67514>>, <<67584,67589>>, <<67592,67592>>, <<67594,67637>>, <<67639,67640>>, <<67644,67644>>, <<67647,67669>>, <<67672,67702>>,
       <<67705,67742>>, <<67751,67759>>, <<67808,67826>>, <<67828,67829>>, <<67835,67867>>, <<67872,67897>>, <<67968,68023>>, <<68028,68047>>,
       <<68050,68096>>, <<68112,68115>>, <<68117,68119>>, <<68121,68149>>, <<68160,68168>>, <<68192,68222>>, <<68224,68255>>, <<68288,68295>>,
       <<68297,68324>>, <<68331,68335>>, <<68352,68405>>, <<68416,68437>>, <<68440,68466>>, <<68472,68497>>, <<68521,68527>>, <<68608,68680>>,
       <<68736,68786>>, <<68800,68850>>, <<68858,68899>>, <<68912,68921>>, <<69216,69246>>, <<69248,69289>>, <<69296,69297>>, <<69376,69415>>,
       <<69424,69445>>, <<69457,69460>>, <<69488,69505>>, <<69552,69579>>, <<69600,69622>>, <<69635,69687>>, <<69714,69743>>, <<69745,69746>>,
       <<69749,69749>>, <<69763,69807>>, <<69840,69864>>, <<69872,69881>>, <<69891,69926>>, <<69942,69951>>, <<69956,69956>>, <<69959,69959>>,
       <<69968,70002>>, <<70006,70006>>, <<70019,70066>>, <<70081,70084>>, <<70096,70106>>, <<70108,70108>>, <<70113,70132>>, <<70144,70161>>,
       <<70163,70187>>, <<70272,70278>>, <<70280,70280>>, <<70282,70285>>, <<70287,70301>>, <<70303,70312>>, <<70320,70366>>, <<70384,70393>>,
       <<70405,70412>>, <<70415,70416>>, <<70419,70440>>, <<70442,70448>>, <<70450,70451>>, <<70453,70457>>, <<70461,70461>>, <<70480,70480>>,
       <<70493,70497>>, <<70656,70708>>, <<70727,70730>>, <<70736,70745>>, <<70751,70753>>, <<70784,70831>>, <<70852,70853>>, <<70855,70855>>,
       <<70864,70873>>, <<71040,71086>>, <<71128,71131>>, <<71168,71215>>, <<71236,71236>>, <<71248,71257>>, <<71296,71338>>, <<71352,71352>>,
       <<71360,71369>>, <<71424,71450>>, <<71472,71483>>, <<71488,71494>>, <<71680,71723>>, <<71840,71922>>, <<71935,71942>>, <<71945,71945>>,
       <<71948,71955>>, <<71957,71958>>, <<71960,71983>>, <<71999,71999>>, <<72001,72001>>, <<72016,72025>>, <<72096,72103>>, <<72106,72144>>,
       <<72161,72161>>, <<72163,72163>>, <<72192,72192>>, <<72203,72242>>, <<72250,72250>>, <<72272,72272>>, <<72284,72329>>, <<72349,72349>>,
       <<72368,72440>>, <<72704,72712>>, <<72714,72750>>, <<72768,72768>>, <<72784,72812>>, <<72818,72847>>, <<72960,72966>>, <<72968,72969>>,
       <<72971,73008>>, <<73030,73030>>, <<73040,73049>>, <<73056,73061>>, <<73063,73064>>, <<73066,73097>>, <<73112,73112>>, <<73120,73129>>,
       <<73440,73458>>, <<73648,73648>>, <<73664,73684>>, <<73728,74649>>, <<74752,74862>>, <<74880,75075>>, <<77712,77808>>, <<77824,78894>>,
       <<82944,83526>>, <<92160,92728>>, <<92736,92766>>, <<92768,92777>>, <<92784,92862>>, <<92864,92873>>, <<92880,92909>>, <<92928,92975>>,
       <<92992,92995>>, <<93008,93017>>, <<93019,93025>>, <<93027,93047>>, <<93053,93071>>, <<93760,93846>>, <<93952,94026>>, <<94032,94032>>,
       <<94099,94111>>, <<94176,94177>>, <<94179,94179>>, <<94208,100343>>, <<100352,101589>>, <<101632,101640>>, <<110576,110579>>, <<110581,110587>>,
       <<110589,110590>>, <<110592,110882>>, <<110928,110930>>, <<110948,110951>>, <<110960,111355>>, <<113664,113770>>, <<113776,113788>>, <<113792,113800>>,
       <<113808,113817>>, <<119520,119539>>, <<119648,119672>>, <<119808,119892>>, <<119894,119964>>, <<119966,119967>>, <<119970,119970>>, <<119973,119974>>,
       <<119977,119980>>, <<119982,119993>>, <<119995,119995>>, <<119997,120003>>, <<120005,120069>>, <<120071,120074>>, <<120077,120084>>, <<120086,120092>>,
       <<120094,120121>>, <<120123,120126>>, <<120128,120132>>, <<120134,120134>>, <<120138,120144>>, <<120146,120485>>, <<120488,120512>>, <<120514,120538>>,
       <<120540,120570>>, <<120572,120596>>, <<120598,120628>>, <<120630,120654>>, <<120656,120686>>, <<120688,120712>>, <<120714,120744>>, <<120746,120770>>,
       <<120772,120779>>, <<120782,120831>>, <<122624,122654>>, <<123136,123180>>, <<123191,123197>>, <<123200,123209>>, <<123214,123214>>, <<123536,123565>>,
       <<123584,123627>>, <<123632,123641>>, <<124896,124902>>, <<124904,124907>>, <<124909,124910>>, <<124912,124926>>, <<124928,125124>>, <<125127,125135>>,
       <<125184,125251>>, <<125259,125259>>, <<125264,125273>>, <<126065,126123>>, <<126125,126127>>, <<126129,126132>>, <<126209,126253>>, <<126255,126269>>,
       <<126464,126467>>, <<126469,126495>>, <<126497,126498>>, <<126500,126500>>, <<126503,126503>>, <<126505,126514>>, <<126516,126519>>, <<126521,126521>>,
       <<126523,126523>>, <<126530,126530>>, <<126535,126535>>, <<126537,126537>>, <<126539,126539>>, <<126541,126543>>, <<126545,126546>>, <<126548,126548>>,
       <<126551,126551>>, <<126553,126553>>, <<126555,126555>>, <<126557,126557>>, <<126559,126559>>, <<126561,126562>>, <<126564,126564>>, <<126567,126570>>,
       <<126572,126578>>, <<126580,126583>>, <<126585,126588>>, <<126590,126590>>, <<126592,126601>>, <<126603,126619>>, <<126625,126627>>, <<126629,126633>>,
       <<126635,126651>>, <<127232,127244>>, <<130032,130041>>, <<131072,173791>>, <<173824,177976>>, <<177984,178205>>, <<178208,183969>>, <<183984,191456>>,
       <<194560,195101>>, <<196608,201546>>
    >>

IsAlnum(c) ==
    IF c < 128 THEN c \in (48..57) \cup (65..90) \cup (97..122)
    ELSE InRanges(c, AlnumRanges)

\* \w of a str pattern: alphanumeric or underscore.
IsWordChar(c) == IsAlnum(c) \/ c = Underscore

\* Characters above ASCII with the property Cased.
CasedRanges ==
    <<
       <<170,170>>, <<181,181>>, <<186,186>>, <<192,214>>, <<216,246>>, <<248,442>>, <<444,447>>, <<452,659>>,
       <<661,696>>, <<704,705>>, <<736,740>>, <<837,837>>, <<880,883>>, <<886,887>>, <<890,893>>, <<895,895>>,
       <<902,902>>, <<904,906>>, <<908,908>>, <<910,929>>, <<931,1013>>, <<1015,1153>>, <<1162,1327>>, <<1329,1366>>,
       <<1376,1416>>, <<4256,4293>>, <<4295,4295>>, <<4301,4301>>, <<4304,4346>>, <<4349,4351>>, <<5024,5109>>, <<5112,5117>>,
       <<7296,7304>>, <<7312,7354>>, <<7357,7359>>, <<7424,7615>>, <<7680,7957>>, <<7960,7965>>, <<7968,8005>>, <<8008,8013>>,
       <<8016,8023>>, <<8025,8025>>, <<8027,8027>>, <<8029,8029>>, <<8031,8061>>, <<8064,8116>>, <<8118,8124>>, <<8126,8126>>,
       <<8130,8132>>, <<8134,8140>>, <<8144,8147>>, <<8150,8155>>, <<8160,8172>>, <<8178,8180>>, <<8182,8188>>, <<8305,8305>>,
       <<8319,8319>>, <<8336,8348>>, <<8450,8450>>, <<8455,8455>>, <<8458,8467>>, <<8469,8469>>, <<8473,8477>>, <<8484,8484>>,
       <<8486,8486>>, <<8488,8488>>, <<8490,8493>>, <<8495,8500>>, <<8505,8505>>, <<8508,8511>>, <<8517,8521>>, <<8526,8526>>,
       <<8544,8575>>, <<8579,8580>>, <<9398,9449>>, <<11264,11492>>, <<11499,11502>>, <<11506,11507>>, <<11520,11557>>, <<11559,11559>>,
       <<11565,11565>>, <<42560,42605>>, <<42624,42653>>, <<42786,42887>>, <<42891,42894>>, <<42896,42954>>, <<42960,42961>>, <<42963,42963>>,
       <<42965,42969>>, <<42997,42998>>, <<43000,43002>>, <<43824,43866>>, <<43868,43880>>, <<43888,43967>>, <<64256,64262>>, <<64275,64279>>,
       <<65313,65338>>, <<65345,65370>>, <<66560,66639>>, <<66736,66771>>, <<66776,66811>>, <<66928,66938>>, <<66940,66954>>, <<66956,66962>>,
       <<66964,66965>>, <<66967,66977>>, <<66979,66993>>, <<66995,67001>>, <<67003,67004>>, <<67456,67456>>, <<67459,67461>>, <<67463,67504>>,
       <<67506,67514>>, <<68736,68786>>, <<68800,68850>>, <<71840,71903>>, <<93760,93823>>, <<119808,119892>>, <<119894,119964>>, <<119966,119967>>,
       <<119970,119970>>, <<119973,119974>>, <<119977,119980>>, <<119982,119993>>, <<119995,119995>>, <<119997,120003>>, <<120005,120069>>, <<120071,120074>>,
       <<120077,120084>>, <<120086,120092>>, <<120094,120121>>, <<120123,120126>>, <<120128,120132>>, <<120134,120134>>, <<120138,120144>>, <<120146,120485>>,
       <<120488,120512>>, <<120514,120538>>, <<120540,120570>>, <<120572,120596>>, <<120598,120628>>, <<120630,120654>>, <<120656,120686>>, <<120688,120712>>,
       <<120714,120744>>, <<120746,120770>>, <<120772,120779>>, <<122624,122633>>, <<122635,122654>>, <<125184,125251>>, <<127280,127305>>, <<127312,127337>>,
       <<127344,127369>>
    >>

IsCased(c) ==
    IF c < 128 THEN c \in (65..90) \cup (97..122) ELSE InRanges(c, CasedRanges)

\* Characters above ASCII with the property Case_Ignorable.
CaseIgnorableRanges ==
    <<
       <<168,168>>, <<173,173>>, <<175,175>>, <<180,180>>, <<183,184>>, <<688,879>>, <<884,885>>, <<890,890>>,
       <<900,901>>, <<903,903>>, <<1155,1161>>, <<1369,1369>>, <<1375,1375>>, <<1425,1469>>, <<1471,1471>>, <<1473,1474>>,
       <<1476,1477>>, <<1479,1479>>, <<1524,1524>>, <<1536,1541>>, <<1552,1562>>, <<1564,1564>>, <<1600,1600>>, <<1611,1631>>,
       <<1648,1648>>, <<1750,1757>>, <<1759,1768>>, <<1770,1773>>, <<1807,1807>>, <<1809,1809>>, <<1840,1866>>, <<1958,1968>>,
       <<2027,2037>>, <<2042,2042>>, <<2045,2045>>, <<2070,2093>>, <<2137,2139>>, <<2184,2184>>, <<2192,2193>>, <<2200,2207>>,
       <<2249,2306>>, <<2362,2362>>, <<2364,2364>>, <<2369,2376>>, <<2381,2381>>, <<2385,2391>>, <<2402,2403>>, <<2417,2417>>,
       <<2433,2433>>, <<2492,2492>>, <<2497,2500>>, <<2509,2509>>, <<2530,2531>>, <<2558,2558>>, <<2561,2562>>, <<2620,2620>>,
       <<2625,2626>>, <<2631,2632>>, <<2635,2637>>, <<2641,2641>>, <<2672,2673>>, <<2677,2677>>, <<2689,2690>>, <<2748,2748>>,
       <<2753,2757>>, <<2759,2760>>, <<2765,2765>>, <<2786,2787>>, <<2810,2815>>, <<2817,2817>>, <<2876,2876>>, <<2879,2879>>,
       <<2881,2884>>, <<2893,2893>>, <<2901,2902>>, <<2914,2915>>, <<2946,2946>>, <<3008,3008>>, <<3021,3021>>, <<3072,3072>>,
       <<3076,3076>>, <<3132,3132>>, <<3134,3136>>, <<3142,3144>>, <<3146,3149>>, <<3157,3158>>, <<3170,3171>>, <<3201,3201>>,
       <<3260,3260>>, <<3263,3263>>, <<3270,3270>>, <<3276,3277>>, <<3298,3299>>, <<3328,3329>>, <<3387,3388>>, <<3393,3396>>,
       <<3405,3405>>, <<3426,3427>>, <<3457,3457>>, <<3530,3530>>, <<3538,3540>>, <<3542,3542>>, <<3633,3633>>, <<3636,3642>>,
       <<3654,3662>>, <<3761,3761>>, <<3764,3772>>, <<3782,3782>>, <<3784,3789>>, <<3864,3865>>, <<3893,3893>>, <<3895,3895>>,
       <<3897,3897>>, <<3953,3966>>, <<3968,3972>>, <<3974,3975>>, <<3981,3991>>, <<3993,4028>>, <<4038,4038>>, <<4141,4144>>,
       <<4146,4151>>, <<4153,4154>>, <<4157,4158>>, <<4184,4185>>, <<4190,4192>>, <<4209,4212>>, <<4226,4226>>, <<4229,4230>>,
       <<4237,4237>>, <<4253,4253>>, <<4348,4348>>, <<4957,4959>>, <<5906,5908>>, <<5938,5939>>, <<5970,5971>>, <<6002,6003>>,
       <<6068,6069>>, <<6071,6077>>, <<6086,6086>>, <<6089,6099>>, <<6103,6103>>, <<6109,6109>>, <<6155,6159>>, <<6211,6211>>,
       <<6277,6278>>, <<6313,6313>>, <<6432,6434>>, <<6439,6440>>, <<6450,6450>>, <<6457,6459>>, <<6679,6680>>, <<6683,6683>>,
       <<6742,6742>>, <<6744,6750>>, <<6752,6752>>, <<6754,6754>>, <<6757,6764>>, <<6771,6780>>, <<6783,6783>>, <<6823,6823>>,
       <<6832,6862>>, <<6912,6915>>, <<6964,6964>>, <<6966,6970>>, <<6972,6972>>, <<6978,6978>>, <<7019,7027>>, <<7040,7041>>,
       <<7074,7077>>, <<7080,7081>>, <<7083,7085>>, <<7142,7142>>, <<7144,7145>>, <<7149,7149>>, <<7151,7153>>, <<7212,7219>>,
       <<7222,7223>>, <<7288,7293>>, <<7376,7378>>, <<7380,7392>>, <<7394,7400>>, <<7405,7405>>, <<7412,7412>>, <<7416,7417>>,
       <<7468,7530>>, <<7544,7544>>, <<7579,7679>>, <<8125,8125>>, <<8127,8129>>, <<8141,8143>>, <<8157,8159>>, <<8173,8175>>,
       <<8189,8190>>, <<8203,8207>>, <<8216,8217>>, <<8228,8228>>, <<8231,8231>>, <<8234,8238>>, <<8288,8292>>, <<8294,8303>>,
       <<8305,8305>>, <<8319,8319>>, <<8336,8348>>, <<8400,8432>>, <<11388,11389>>, <<11503,11505>>, <<11631,11631>>, <<11647,11647>>,
       <<11744,11775>>, <<11823,11823>>, <<12293,12293>>, <<12330,12333>>, <<12337,12341>>, <<12347,12347>>, <<12441,12446>>, <<12540,12542>>,
       <<40981,40981>>, <<42232,42237>>, <<42508,42508>>, <<42607,42610>>, <<42612,42621>>, <<42623,42623>>, <<42652,42655>>, <<42736,42737>>,
       <<42752,42785>>, <<42864,42864>>, <<42888,42890>>, <<42994,42996>>, <<43000,43001>>, <<43010,43010>>, <<43014,43014>>, <<43019,43019>>,
       <<43045,43046>>, <<43052,43052>>, <<43204,43205>>, <<43232,43249>>, <<43263,43263>>, <<43302,43309>>, <<43335,43345>>, <<43392,43394>>,
       <<43443,43443>>, <<43446,43449>>, <<43452,43453>>, <<43471,43471>>, <<43493,43494>>, <<43561,43566>>, <<43569,43570>>, <<43573,43574>>,
       <<43587,43587>>, <<43596,43596>>, <<43632,43632>>, <<43644,43644>>, <<43696,43696>>, <<43698,43700>>, <<43703,43704>>, <<43710,43711>>,
       <<43713,43713>>, <<43741,43741>>, <<43756,43757>>, <<43763,43764>>, <<43766,43766>>, <<43867,43871>>, <<43881,43883>>, <<44005,44005>>,
       <<44008,44008>>, <<44013,44013>>, <<64286,64286>>, <<64434,64450>>, <<65024,65039>>, <<65043,65043>>, <<65056,65071>>, <<65106,65106>>,
       <<65109,65109>>, <<65279,65279>>, <<65287,65287>>, <<65294,65294>>, <<65306,65306>>, <<65342,65342>>, <<65344,65344>>, <<65392,65392>>,
       <<65438,65439>>, <<65507,65507>>, <<65529,65531>>, <<66045,66045>>, <<66272,66272>>, <<66422,66426>>, <<67456,67461>>, <<67463,67504>>,
       <<67506,67514>>, <<68097,68099>>, <<68101,68102>>, <<68108,68111>>, <<68152,68154>>, <<68159,68159>>, <<68325,68326>>, <<68900,68903>>,
       <<69291,69292>>, <<69446,69456>>, <<69506,69509>>, <<69633,69633>>, <<69688,69702>>, <<69744,69744>>, <<69747,69748>>, <<69759,69761>>,
       <<69811,69814>>, <<69817,69818>>, <<69821,69821>>, <<69826,69826>>, <<69837,69837>>, <<69888,69890>>, <<69927,69931>>, <<69933,69940>>,
       <<70003,70003>>, <<70016,70017>>, <<70070,70078>>, <<70089,70092>>, <<70095,70095>>, <<70191,70193>>, <<70196,70196>>, <<70198,70199>>,
       <<70206,70206>>, <<70367,70367>>, <<70371,70378>>, <<70400,70401>>, <<70459,70460>>, <<70464,70464>>, <<70502,70508>>, <<70512,70516>>,
       <<70712,70719>>, <<70722,70724>>, <<70726,70726>>, <<70750,70750>>, <<70835,70840>>, <<70842,70842>>, <<70847,70848>>, <<70850,70851>>,
       <<71090,71093>>, <<71100,71101>>, <<71103,71104>>, <<71132,71133>>, <<71219,71226>>, <<71229,71229>>, <<71231,71232>>, <<71339,71339>>,
       <<71341,71341>>, <<71344,71349>>, <<71351,71351>>, <<71453,71455>>, <<71458,71461>>, <<71463,71467>>, <<71727,71735>>, <<71737,71738>>,
       <<71995,71996>>, <<71998,71998>>, <<72003,72003>>, <<72148,72151>>, <<72154,72155>>, <<72160,72160>>, <<72193,72202>>, <<72243,72248>>,
       <<72251,72254>>, <<72263,72263>>, <<72273,72278>>, <<72281,72283>>, <<72330,72342>>, <<72344,72345>>, <<72752,72758>>, <<72760,72765>>,
       <<72767,72767>>, <<72850,72871>>, <<72874,72880>>, <<72882,72883>>, <<72885,72886>>, <<73009,73014>>, <<73018,73018>>, <<73020,73021>>,
       <<73023,73029>>, <<73031,73031>>, <<73104,73105>>, <<73109,73109>>, <<73111,73111>>, <<73459,73460>>, <<78896,78904>>, <<92912,92916>>,
       <<92976,92982>>, <<92992,92995>>, <<94031,94031>>, <<94095,94111>>, <<94176,94177>>, <<94179,94180>>, <<110576,110579>>, <<110581,110587>>,
       <<110589,110590>>, <<113821,113822>>, <<113824,113827>>, <<118528,118573>>, <<118576,118598>>, <<119143,119145>>, <<119155,119170>>, <<119173,119179>>,
       <<119210,119213>>, <<119362,119364>>, <<121344,121398>>, <<121403,121452>>, <<121461,121461>>, <<121476,121476>>, <<121499,121503>>, <<121505,121519>>,
       <<122880,122886>>, <<122888,122904>>, <<122907,122913>>, <<122915,122916>>, <<122918,122922>>, <<123184,123197>>, <<123566,123566>>, <<123628,123631>>,
       <<125136,125142>>, <<125252,125259>>, <<127995,127999>>, <<917505,917505>>, <<917536,917631>>, <<917760,917999>>
    >>

\* In ASCII: ' . : ^ `
IsCaseIgnorable(c) ==
    IF c < 128 THEN c \in {39, 46, 58, 94, 96}
    ELSE InRanges(c, CaseIgnorableRanges)

\* Lower-case mappings above ASCII: <<first, last, step, delta>> maps every
\* step-th code point c of first..last to c + delta.
LowerRanges ==
    <<
       <<192,214,1,32>>, <<216,222,1,32>>, <<256,302,2,1>>, <<306,310,2,1>>, <<313,327,2,1>>, <<330,374,2,1>>,
       <<376,376,1,-121>>, <<377,381,2,1>>, <<385,385,1,210>>, <<386,388,2,1>>, <<390,390,1,206>>, <<391,391,1,1>>,
       <<393,394,1,205>>, <<395,395,1,1>>, <<398,398,1,79>>, <<399,399,1,202>>, <<400,400,1,203>>, <<401,401,1,1>>,
       <<403,403,1,205>>, <<404,404,1,207>>, <<406,406,1,211>>, <<407,407,1,209>>, <<408,408,1,1>>, <<412,412,1,211>>,
       <<413,413,1,213>>, <<415,415,1,214>>, <<416,420,2,1>>, <<422,422,1,218>>, <<423,423,1,1>>, <<425,425,1,218>>,
       <<428,428,1,1>>, <<430,430,1,218>>, <<431,431,1,1>>, <<433,434,1,217>>, <<435,437,2,1>>, <<439,439,1,219>>,
       <<440,440,1,1>>, <<444,444,1,1>>, <<452,452,1,2>>, <<453,453,1,1>>, <<455,455,1,2>>, <<456,456,1,1>>,
       <<458,458,1,2>>, <<459,475,2,1>>, <<478,494,2,1>>, <<497,497,1,2>>, <<498,500,2,1>>, <<502,502,1,-97>>,
       <<503,503,1,-56>>, <<504,542,2,1>>, <<544,544,1,-130>>, <<546,562,2,1>>, <<570,570,1,10795>>, <<571,571,1,1>>,
       <<573,573,1,-163>>, <<574,574,1,10792>>, <<577,577,1,1>>, <<579,579,1,-195>>, <<580,580,1,69>>, <<581,581,1,71>>,
       <<582,590,2,1>>, <<880,882,2,1>>, <<886,886,1,1>>, <<895,895,1,116>>, <<902,902,1,38>>, <<904,906,1,37>>,
       <<908,908,1,64>>, <<910,911,1,63>>, <<913,929,1,32>>, <<931,939,1,32>>, <<975,975,1,8>>, <<984,1006,2,1>>,
       <<1012,1012,1,-60>>, <<1015,1015,1,1>>, <<1017,1017,1,-7>>, <<1018,1018,1,1>>, <<1021,1023,1,-130>>, <<1024,1039,1,80>>,
       <<1040,1071,1,32>>, <<1120,1152,2,1>>, <<1162,1214,2,1>>, <<1216,1216,1,15>>, <<1217,1229,2,1>>, <<1232,1326,2,1>>,
       <<1329,1366,1,48>>, <<4256,4293,1,7264>>, <<4295,4295,1,7264>>, <<4301,4301,1,7264>>, <<5024,5103,1,38864>>, <<5104,5109,1,8>>,
       <<7312,7354,1,-3008>>, <<7357,7359,1,-3008>>, <<7680,7828,2,1>>, <<7838,7838,1,-7615>>, <<7840,7934,2,1>>, <<7944,7951,1,-8>>,
       <<7960,7965,1,-8>>, <<7976,7983,1,-8>>, <<7992,7999,1,-8>>, <<8008,8013,1,-8>>, <<8025,8031,2,-8>>, <<8040,8047,1,-8>>,
       <<8072,8079,1,-8>>, <<8088,8095,1,-8>>, <<8104,8111,1,-8>>, <<8120,8121,1,-8>>, <<8122,8123,1,-74>>, <<8124,8124,1,-9>>,
       <<8136,8139,1,-86>>, <<8140,8140,1,-9>>, <<8152,8153,1,-8>>, <<8154,8155,1,-100>>, <<8168,8169,1,-8>>, <<8170,8171,1,-112>>,
       <<8172,8172,1,-7>>, <<8184,8185,1,-128>>, <<8186,8187,1,-126>>, <<8188,8188,1,-9>>, <<8486,8486,1,-7517>>, <<8490,8490,1,-8383>>,
       <<8491,8491,1,-8262>>, <<8498,8498,1,28>>, <<8544,8559,1,16>>, <<8579,8579,1,1>>, <<9398,9423,1,26>>, <<11264,11311,1,48>>,
       <<11360,11360,1,1>>, <<11362,11362,1,-10743>>, <<11363,11363,1,-3814>>, <<11364,11364,1,-10727>>, <<11367,11371,2,1>>, <<11373,11373,1,-10780>>,
       <<11374,11374,1,-10749>>, <<11375,11375,1,-10783>>, <<11376,11376,1,-10782>>, <<11378,11378,1,1>>, <<11381,11381,1,1>>, <<11390,11391,1,-10815>>,
       <<11392,11490,2,1>>, <<11499,11501,2,1>>, <<11506,11506,1,1>>, <<42560,42604,2,1>>, <<42624,42650,2,1>>, <<42786,42798,2,1>>,
       <<42802,42862,2,1>>, <<42873,42875,2,1>>, <<42877,42877,1,-35332>>, <<42878,42886,2,1>>, <<42891,42891,1,1>>, <<42893,42893,1,-42280>>,
       <<42896,42898,2,1>>, <<42902,42920,2,1>>, <<42922,42922,1,-42308>>, <<42923,42923,1,-42319>>, <<42924,42924,1,-42315>>, <<42925,42925,1,-42305>>,
       <<42926,42926,1,-42308>>, <<42928,42928,1,-42258>>, <<42929,42929,1,-42282>>, <<42930,42930,1,-42261>>, <<42931,42931,1,928>>, <<42932,42946,2,1>>,
       <<42948,42948,1,-48>>, <<42949,42949,1,-42307>>, <<42950,42950,1,-35384>>, <<42951,42953,2,1>>, <<42960,42960,1,1>>, <<42966,42968,2,1>>,
       <<42997,42997,1,1>>, <<65313,65338,1,32>>, <<66560,66599,1,40>>, <<66736,66771,1,40>>, <<66928,66938,1,39>>, <<66940,66954,1,39>>,
       <<66956,66962,1,39>>, <<66964,66965,1,39>>, <<68736,68786,1,64>>, <<71840,71871,1,32>>, <<93760,93791,1,32>>, <<125184,125217,1,34>>
    >>

\* Lower-case form of one character: one code point, or two for U+0130.
ToLowerFull(c) ==
    IF c < 128 THEN <<IF c \in 65..90 THEN c + 32 ELSE c>>
    ELSE IF c = 304 THEN <<105, 775>>
    ELSE LET hits == {i \in DOMAIN LowerRanges :
                         /\ LowerRanges[i][1] <= c
                         /\ c <= LowerRanges[i][2]
                         /\ (c - LowerRanges[i][1]) % LowerRanges[i][3] = 0}
         IN IF hits = {} THEN <<c>>
            ELSE <<c + LowerRanges[CHOOSE i \in hits : TRUE][4]>>

\* Capital sigma (U+03A3) at s[i]: final sigma U+03C2 when a cased character
\* precedes it, case-ignorable characters skipped, and none follows it in
\* the same way; else small sigma U+03C3.
handle_capital_sigma(s, i) ==
    LET before == {j \in 1..(i - 1) : ~IsCaseIgnorable(s[j])}
        after == {j \in (i + 1)..Len(s) : ~IsCaseIgnorable(s[j])}
        final_sigma == /\ before # {}
                       /\ IsCased(s[Max(before)])
                       /\ (after = {} \/ ~IsCased(s[Min(after)]))
    IN IF final_sigma THEN 962 ELSE 963

\* str.lower()
str_lower(s) ==
    Flatten([i \in 1..Len(s) |->
                IF s[i] = 931 THEN <<handle_capital_sigma(s, i)>>
                ELSE ToLowerFull(s[i])])

\* str.title() of an ASCII str, as the entries of `merchants` are: a letter
\* is upper-cased after a non-letter (or at the start) and lower-cased after
\* a letter.
str_title(s) ==
    [i \in 1..Len(s) |->
        IF i > 1 /\ IsCased(s[i-1])
        THEN (IF s[i] \in 65..90 THEN s[i] + 32 ELSE s[i])
        ELSE (IF s[i] \in 97..122 THEN s[i] - 32 ELSE s[i])]

\* str.replace(',', '')
RECURSIVE strip_commas(_)
strip_commas(s) ==
    IF s = <<>> THEN <<>>
    ELSE IF Head(s) = Comma THEN strip_commas(Tail(s))
    ELSE <<Head(s)>> \o strip_commas(Tail(s))

\* str.split(): the maximal runs of non-whitespace characters, in order.
RECURSIVE str_split(_)
str_split(s) ==
    IF s = <<>> THEN <<>>
    ELSE IF IsSpace(Head(s)) THEN str_split(Tail(s))
    ELSE LET stops == {i \in 1..Len(s) : IsSpace(s[i])}
             e == IF stops = {} THEN Len(s) + 1
                  ELSE CHOOSE i \in stops : \A j \in stops : i <= j
         IN <<SubSeq(s, 1, e - 1)>> \o str_split(SubSeq(s, e, Len(s)))

\* ' '.join(words)
RECURSIVE str_join(_)
str_join(words) ==
    IF words = <<>> THEN <<>>
    ELSE IF Len(words) = 1 THEN words[1]
    ELSE words[1] \o <<Space>> \o str_join(Tail(words))

\* re.sub(r'[^\w\s]', ' ', text)
re_sub_nonword(s) ==
    [i \in 1..Len(s) |-> IF IsWordChar(s[i]) \/ IsSpace(s[i]) THEN s[i] ELSE Space]

\* The same statements with lines 30 and 31 exchanged.
preprocess_text_join_first(text) ==
    re_sub_nonword(str_join(str_split(str_lower(text))))

preprocess_text(text) ==
    str_join(str_split(re_sub_nonword(str_lower(text))))

(***************************************************************************)
(* extract_amount_from_sms (lines 34-49).                                  *)
(***************************************************************************)
\* s[i], or -1 past either end of s.
At(s, i) == IF i \in 1..Len(s) THEN s[i] ELSE -1

HasPrefixAt(s, p, w) ==
    /\ p >= 1
    /\ p + Len(w) - 1 <= Len(s)
    /\ SubSeq(s, p, p + Len(w) - 1) = w

\* The third alternative of (?:rs\.?|inr|...) as the source file spells it:
\* U+201A, U+00C7, U+03C0.
CurrencySymbol == <<8218, 199, 960>>

\* The ways to match (?:rs\.?|inr|<symbol>).
Markers == <<Text("rs"), Text("rs."), Text("inr"), CurrencySymbol>>

\* (?:rs\.?|inr|<symbol>) at p: the positions right after each way to match.
MarkerEnds(s, p) ==
    {p + Len(Markers[i]) : i \in {j \in DOMAIN Markers : HasPrefixAt(s, p, Markers[j])}}

\* \s* from p: the positions it can stop at.
SpaceEnds(s, p) ==
    {e \in p..(Len(s) + 1) : \A i \in p..(e - 1) : IsSpace(s[i])}

\* End (exclusive) of the maximal run of digits from p.
DigitsEnd(s, p) ==
    CHOOSE e \in p..(Len(s) + 1) :
        /\ \A i \in p..(e - 1) : IsDigit(s[i])
        /\ ~IsDigit(At(s, e))

\* (?:,\d+)* taken greedily from p.
RECURSIVE GroupsEnd(_, _)
GroupsEnd(s, p) ==
    IF At(s, p) = Comma /\ IsDigit(At(s, p + 1))
    THEN GroupsEnd(s, DigitsEnd(s, p + 1))
    ELSE p

\* (\d+(?:,\d+)*(?:\.\d{2})?) as the last item of a pattern, from a digit at
\* p: every quantifier takes all it can and nothing follows to take it back.
NumberEnd(s, p) ==
    LET g == GroupsEnd(s, DigitsEnd(s, p))
    IN IF At(s, g) = Dot /\ IsDigit(At(s, g + 1)) /\ IsDigit(At(s, g + 2))
       THEN g + 3 ELSE g

\* s[p..e-1] is, as a whole, \d+(?:,\d+)*(?:\.\d{2})?
IsNumber(s, p, e) ==
    /\ e > p
    /\ IsDigit(s[p])
    /\ LET b == IF e - p >= 4 /\ s[e-3] = Dot THEN e - 3 ELSE e
       IN /\ \A i \in p..(b - 1) : IsDigit(s[i]) \/ s[i] = Comma
          /\ IsDigit(s[b-1])
          /\ \A i \in p..(b - 2) : ~(s[i] = Comma /\ s[i+1] = Comma)
          /\ b < e => (IsDigit(s[e-2]) /\ IsDigit(s[e-1]))

\* What stands for None: -1 is no code point.
NoMatch == <<-1>>

\* patterns[0] at p: where group 1 can start.
MarkerNumberStarts(s, p) ==
    {q \in UNION {SpaceEnds(s, m) : m \in MarkerEnds(s, p)} : IsDigit(At(s, q))}

\* patterns[1] at p: where group 1 can end.  The group holds only digits,
\* commas and dots and what follows it starts with none of them.
NumberMarkerEnds(s, p) ==
    {e \in (p + 1)..(Len(s) + 1) :
        /\ IsNumber(s, p, e)
        /\ \E w \in SpaceEnds(s, e) : MarkerEnds(s, w) # {}}

\* patterns[2..4] at p: where group 1 can start.
KeywordNumberStarts(s, p, kw) ==
    IF ~HasPrefixAt(s, p, kw) THEN {}
    ELSE LET afterKw == SpaceEnds(s, p + Len(kw))
             afterMarker == afterKw \cup UNION {MarkerEnds(s, a) : a \in afterKw}
         IN {q \in UNION {SpaceEnds(s, m) : m \in afterMarker} : IsDigit(At(s, q))}

Keywords == <<Text("amount"), Text("debited"), Text("spent")>>

NumPatterns == 5

\* re.search(patterns[k], s).group(1), or NoMatch: the leftmost position at
\* which the pattern matches decides.
re_search_group1(k, s) ==
    LET starts(p) == IF k = 1 THEN MarkerNumberStarts(s, p)
                     ELSE IF k = 2 THEN NumberMarkerEnds(s, p)
                     ELSE KeywordNumberStarts(s, p, Keywords[k - 2])
        ps == {p \in 1..Len(s) : starts(p) # {}}
    IN IF ps = {} THEN NoMatch
       ELSE LET p == Min(ps)
                q == CHOOSE x \in starts(p) : TRUE
            IN IF k = 2 THEN SubSeq(s, p, q - 1)
               ELSE SubSeq(s, q, NumberEnd(s, q) - 1)

RECURSIVE IntOf(_)
IntOf(ds) ==
    IF ds = <<>> THEN 0
    ELSE 10 * IntOf(SubSeq(ds, 1, Len(ds) - 1)) + DigitVal(ds[Len(ds)])

\* float(digits) and float(digits.dd), in hundredths: the decimal digits of
\* any script count by their value.  (A float holds the number exactly as
\* long as it has at most 15 digits.)
float(a) ==
    IF Len(a) >= 3 /\ a[Len(a) - 2] = Dot
    THEN 100 * IntOf(SubSeq(a, 1, Len(a) - 3)) + IntOf(SubSeq(a, Len(a) - 1, Len(a)))
    ELSE 100 * IntOf(a)

\* The loop with the patterns tried from the last to the first.
LastPattern(s) ==
    LET ks == {k \in 1..NumPatterns : re_search_group1(k, s) # NoMatch}
    IN IF ks = {} THEN 0 ELSE CHOOSE k \in ks : \A j \in ks : j <= k

\* The index of the first pattern that matches, 0 when none does.
FirstPattern(s) ==
    LET ks == {k \in 1..NumPatterns : re_search_group1(k, s) # NoMatch}
    IN IF ks = {} THEN 0 ELSE Min(ks)

extract_amount_from_sms(sms_text) ==
    LET s == str_lower(sms_text)
        k == FirstPattern(s)
    IN IF k = 0 THEN 0 ELSE float(strip_commas(re_search_group1(k, s)))

(***************************************************************************)
(* extract_merchant_from_sms (lines 51-61).                                *)
(***************************************************************************)
merchants ==
    << Text("swiggy"), Text("zomato"), Text("amazon"), Text("flipkart"),
       Text("netflix"), Text("uber"), Text("ola"), Text("pizza hut"),
       Text("dominos"), Text("mcdonald"), Text("starbucks"),
       Text("big bazaar"), Text("dmart") >>

UnknownMerchant == Text("Unknown Merchant")

\* `merchant in text`
Contains(text, w) == \E p \in 1..(Len(text) + 1) : HasPrefixAt(text, p, w)

\* The loop returning the entry found at the leftmost place of the text.
LeftmostMerchant(s) ==
    LET found == {i \in DOMAIN merchants : Contains(s, merchants[i])}
        first(i) == Min({p \in 1..Len(s) : HasPrefixAt(s, p, merchants[i])})
    IN IF found = {} THEN 0
       ELSE CHOOSE i \in found :
               \A j \in found : first(i) < first(j) \/ (first(i) = first(j) /\ i <= j)

\* The index of the first entry, in list order, the text contains; 0 if none.
FirstMerchant(s) ==
    LET found == {i \in DOMAIN merchants : Contains(s, merchants[i])}
    IN IF found = {} THEN 0 ELSE Min(found)

extract_merchant_from_sms(sms_text) ==
    LET i == FirstMerchant(str_lower(sms_text))
    IN IF i = 0 THEN UnknownMerchant ELSE str_title(merchants[i])

(***************************************************************************)
(* The classifier (sms_categorization_model.pkl, tfidf_vectorizer.pkl).    *)
(* The pickled objects are not part of the source; they are modelled by    *)
(* their contract: transform turns a text into its features, predict_proba *)
(* gives one probability per class, predict gives the most probable class, *)
(* and any of them can raise.  Probabilities are counted in thousandths.   *)
(***************************************************************************)
Returned(v) == [ok |-> TRUE, val |-> v]

Raised(e, msg) == [ok |-> FALSE, exc |-> e, str |-> msg]

\* What joblib.load can hand back for each file.
Models == {"clf", "clf_fitted_on_other_features"}

Vectorizers == {"tfidf"}

classes_ == <<"Emergency", "Essentials", "Impulse">>

EmergencyWords == {Text("emergency"), Text("doctor")}

ImpulseWords == {Text("swiggy"), Text("pizza")}

Vocabulary == EmergencyWords \cup ImpulseWords \cup {Text("groceries"), Text("bus")}

\* vectorizer.transform([processed_text])
transform(v, processed_text) ==
    IF v = None
    THEN Raised("AttributeError", "'NoneType' object has no attribute 'transform'")
    ELSE Returned(Range(str_split(processed_text)) \cap Vocabulary)

\* model.predict_proba(text_vector)[0]
predict_proba(m, text_vector) ==
    IF m = None
    THEN Raised("AttributeError", "'NoneType' object has no attribute 'predict_proba'")
    ELSE IF m # "clf"
    THEN Raised("ValueError", "X has a different number of features than the model expects")
    ELSE IF text_vector \cap EmergencyWords # {}
    THEN Returned(<<800, 150, 50>>)
    ELSE IF text_vector \cap ImpulseWords # {}
    THEN Returned(<<100, 233, 667>>)
    ELSE Returned(<<200, 600, 200>>)

\* model.predict(text_vector)[0]
predict(m, text_vector) ==
    LET p == predict_proba(m, text_vector)
    IN IF m = None
       THEN Raised("AttributeError", "'NoneType' object has no attribute 'predict'")
       ELSE IF ~p.ok THEN p
       ELSE Returned(classes_[CHOOSE i \in DOMAIN classes_ : p.val[i] = Max(Range(p.val))])

\* The probabilities x/1000 ending in 5 that round(x/1000, 2) rounds down:
\* the float nearest to x/1000 lies below the half, or is the half exactly
\* (125, 625) and the even neighbour is the lower one.
HalvesRoundedDown ==
    {15, 45, 75, 105, 125, 145, 155, 175, 185, 205, 215, 235, 245, 285,
     295, 305, 345, 355, 365, 415, 425, 435, 475, 485, 495, 565, 575, 585,
     595, 605, 615, 625, 695, 705, 715, 725, 735, 745, 815, 825, 835, 845,
     855, 865, 945, 955, 965, 975, 985, 995}

\* round(x, 2) of a probability (a float) in thousandths, in hundredths.
round2(x) ==
    IF x \in HalvesRoundedDown THEN x \div 10 ELSE (x + 5) \div 10

(***************************************************************************)
(* The module-level load block (lines 16-25).                              *)
(***************************************************************************)
NumThreads == 2

Threads == 1..NumThreads

\* No request in the thread, no response yet.
NoRequest == [route |-> "none"]

NoResponse == [status |-> 0]

NoException == [ok |-> TRUE]

NoLocals == [processed_text |-> None, prediction |-> None, confidence |-> None,
             e |-> NoException]

Init ==
    /\ phase = "load_model"
    /\ model = "unbound"
    /\ vectorizer = "unbound"
    /\ pc = [r \in Threads |-> "idle"]
    /\ request = [r \in Threads |-> NoRequest]
    /\ locals = [r \in Threads |-> NoLocals]
    /\ calls = [r \in Threads |-> {}]
    /\ resp = [r \in Threads |-> NoResponse]
    /\ input = <<>>
    /\ output = <<>>
    /\ called = "none"

requestVars == <<pc, request, locals, calls, resp>>

\* An except clause that forgets to reset the model.
ExceptKeepsModel ==
    /\ model' = model
    /\ vectorizer' = None

\* except Exception as e: model = None; vectorizer = None (lines 22-25)
ExceptLoad ==
    /\ model' = None
    /\ vectorizer' = None

\* model = joblib.load('sms_categorization_model.pkl') returns (line 19)
LoadModel ==
    /\ phase = "load_model"
    /\ model' \in Models
    /\ phase' = "load_vectorizer"
    /\ UNCHANGED <<vectorizer, requestVars, pureVars>>

\* the same call raises (lines 19, 22-25)
LoadModelFails ==
    /\ phase = "load_model"
    /\ ExceptLoad
    /\ phase' = "serving"
    /\ UNCHANGED <<requestVars, pureVars>>

\* vectorizer = joblib.load('tfidf_vectorizer.pkl') returns (line 20)
LoadVectorizer ==
    /\ phase = "load_vectorizer"
    /\ vectorizer' \in Vectorizers
    /\ phase' = "serving"
    /\ UNCHANGED <<model, requestVars, pureVars>>

\* the same call raises (lines 20, 22-25)
LoadVectorizerFails ==
    /\ phase = "load_vectorizer"
    /\ ExceptLoad
    /\ phase' = "serving"
    /\ UNCHANGED <<requestVars, pureVars>>

(***************************************************************************)
(* Request bodies and responses.                                           *)
(***************************************************************************)
Str(s) == [t |-> "str", v |-> s]

SwiggySms == Text("Rs 200 spent on Swiggy order")

\* 8377 is the rupee sign U+20B9.
GroceriesSms == <<8377>> \o Text("1,500.50 debited for groceries")

\* No JSON document in the request.
BodyAbsent == [t |-> "absent"]

JNull == [t |-> "null"]

\* A JSON object; the dict is a record.
JObject(d) == [t |-> "object", v |-> d]

\* The request bodies sent, listed.
Bodies ==
    << JObject([sms_text |-> [t |-> "int", v |-> 123]]),
      BodyAbsent,
      JObject([other |-> Str(SwiggySms)]),
      JObject([sms_text |-> [t |-> "list", v |-> <<SwiggySms>>]]),
      JObject([sms_text |-> Str(SwiggySms)]),
      JObject([sms_text |-> Str(GroceriesSms)]) >>

\* request.get_json(): the outcomes it can have, listed.  Without a JSON
\* document it returns None or raises an HTTPException (a BadRequest or an
\* UnsupportedMediaType), depending on the Flask release installed.
get_json(b) ==
    IF b = BodyAbsent
    THEN <<Returned(JNull), Raised("HTTPException", "415 Unsupported Media Type")>>
    ELSE <<Returned(b)>>

Response(status, json) == [status |-> status, json |-> json]

\* A reply that stands in a default category for the missing model.
UnavailableAsDefault ==
    Response(200, [success |-> TRUE, category |-> "Essentials"])

\* lines 80-83
UnavailableResponse ==
    Response(500, [error |-> "Model not loaded properly", success |-> FALSE])

\* lines 89-93
MissingTextResponse ==
    Response(400, [error |-> "Please provide sms_text in JSON", success |-> FALSE,
                   example |-> [sms_text |-> "Rs 200 spent on Swiggy order"]])

\* lines 129-134
ExceptResponse(e) ==
    Response(500, [error |-> e.str, success |-> FALSE])

\* lines 116-127
ResultResponse(prediction, confidence, amount, merchant, sms_text) ==
    Response(200, [success |-> TRUE, category |-> prediction,
                   confidence |-> round2(confidence), amount |-> amount,
                   merchant |-> merchant, original_text |-> sms_text,
                   processed_at |-> "now"])

\* if model is None or vectorizer is None (line 79)
ModelUnavailable == model = None \/ vectorizer = None

\* A variable kept at module level: one value for every thread.
SetGlobal(r, name, value) ==
    [t \in Threads |-> IF pc[t] = "idle" THEN locals[t]
                       ELSE [locals[t] EXCEPT ![name] = value]]

\* A local variable of the call served by thread r.
SetLocal(r, name, value) ==
    [locals EXCEPT ![r][name] = value]

(***************************************************************************)
(* categorize_sms (lines 74-134), one thread per request.                  *)
(***************************************************************************)
Post(b) == [route |-> "/categorize", body |-> b]

\* A POST /categorize reaches a free thread, which runs lines 79-83.
CheckModel(r) ==
    /\ phase = "serving"
    /\ pc[r] = "idle"
    /\ \E i \in DOMAIN Bodies : request' = [request EXCEPT ![r] = Post(Bodies[i])]
    /\ IF ModelUnavailable
       THEN /\ resp' = [resp EXCEPT ![r] = UnavailableResponse]
            /\ pc' = [pc EXCEPT ![r] = "done"]
       ELSE /\ pc' = [pc EXCEPT ![r] = "get_json"]
            /\ UNCHANGED resp
    /\ UNCHANGED <<phase, model, vectorizer, locals, calls, pureVars>>

\* The handler leaves through its except clause (lines 129-134).
Except(r, e, called_now) ==
    /\ locals' = SetLocal(r, "e", e)
    /\ calls' = [calls EXCEPT ![r] = @ \cup called_now]
    /\ resp' = [resp EXCEPT ![r] = ExceptResponse(e)]
    /\ pc' = [pc EXCEPT ![r] = "done"]

\* lines 86-99: read the document, take sms_text, preprocess it
GetText(r) ==
    /\ pc[r] = "get_json"
    /\ \E i \in DOMAIN get_json(request[r].body) :
         LET data == get_json(request[r].body)[i] IN
         IF ~data.ok
         THEN Except(r, data, {"request.get_json"})
         ELSE IF data.val.t = "null" \/ DOMAIN data.val.v = {}
                    \/ "sms_text" \notin DOMAIN data.val.v
         THEN /\ resp' = [resp EXCEPT ![r] = MissingTextResponse]
              /\ calls' = [calls EXCEPT ![r] = @ \cup {"request.get_json"}]
              /\ pc' = [pc EXCEPT ![r] = "done"]
              /\ UNCHANGED locals
         ELSE LET sms_text == data.val.v.sms_text
              IN IF sms_text.t \notin {"str", "list"}
                 THEN Except(r, Raised("TypeError", "'int' object is not subscriptable"),
                             {"request.get_json"})
                 ELSE IF sms_text.t # "str"
                 THEN Except(r, Raised("AttributeError", "'list' object has no attribute 'lower'"),
                             {"request.get_json", "preprocess_text"})
                 ELSE /\ locals' = SetLocal(r, "processed_text", preprocess_text(sms_text.v))
                      /\ calls' = [calls EXCEPT ![r] =
                                     @ \cup {"request.get_json", "preprocess_text"}]
                      /\ pc' = [pc EXCEPT ![r] = "classify"]
                      /\ UNCHANGED resp
    /\ UNCHANGED <<phase, model, vectorizer, request, pureVars>>

\* lines 101-109: transform, predict, predict_proba
Classify(r) ==
    /\ pc[r] = "classify"
    /\ LET text_vector == transform(vectorizer, locals[r].processed_text)
           prediction == predict(model, text_vector.val)
           probabilities == predict_proba(model, text_vector.val)
       IN IF ~text_vector.ok
          THEN Except(r, text_vector, {"vectorizer.transform"})
          ELSE IF ~prediction.ok
          THEN Except(r, prediction, {"vectorizer.transform", "model.predict"})
          ELSE IF ~probabilities.ok
          THEN Except(r, probabilities,
                      {"vectorizer.transform", "model.predict", "model.predict_proba"})
          ELSE /\ locals' = [locals EXCEPT ![r].prediction = prediction.val,
                                           ![r].confidence = Max(Range(probabilities.val))]
               /\ calls' = [calls EXCEPT ![r] = @ \cup
                              {"vectorizer.transform", "model.predict", "model.predict_proba"}]
               /\ pc' = [pc EXCEPT ![r] = "extract"]
               /\ UNCHANGED resp
    /\ UNCHANGED <<phase, model, vectorizer, request, pureVars>>

\* lines 111-127: extract amount and merchant, build the result
Respond(r) ==
    /\ pc[r] = "extract"
    /\ LET sms_text == request[r].body.v.sms_text.v
       IN resp' = [resp EXCEPT ![r] =
                     ResultResponse(locals[r].prediction, locals[r].confidence,
                                    extract_amount_from_sms(sms_text),
                                    extract_merchant_from_sms(sms_text), sms_text)]
    /\ calls' = [calls EXCEPT ![r] =
                   @ \cup {"extract_amount_from_sms", "extract_merchant_from_sms"}]
    /\ pc' = [pc EXCEPT ![r] = "done"]
    /\ UNCHANGED <<phase, model, vectorizer, request, locals, pureVars>>

\* The response is sent and the thread is free again.
Reply(r) ==
    /\ pc[r] = "done"
    /\ pc' = [pc EXCEPT ![r] = "idle"]
    /\ request' = [request EXCEPT ![r] = NoRequest]
    /\ locals' = [locals EXCEPT ![r] = NoLocals]
    /\ calls' = [calls EXCEPT ![r] = {}]
    /\ resp' = [resp EXCEPT ![r] = NoResponse]
    /\ UNCHANGED <<phase, model, vectorizer, pureVars>>

(***************************************************************************)
(* home (lines 63-72) and test_api (lines 136-170).                        *)
(***************************************************************************)
\* 'message' at line 67: U+F8FF, U+00FC, U+00A7, U+00F1 and the text.
HomeMessage == <<63743, 252, 167, 241>> \o Text(" SMS Categorization API is running!")

home(r) ==
    /\ phase = "serving"
    /\ pc[r] = "idle"
    /\ request' = [request EXCEPT ![r] = [route |-> "/"]]
    /\ resp' = [resp EXCEPT ![r] =
                  Response(200, [message |-> HomeMessage,
                                 status |-> "healthy",
                                 model_loaded |-> (model # None),
                                 categories |-> <<"Essentials", "Emergency", "Impulse">>,
                                 time |-> "now"])]
    /\ pc' = [pc EXCEPT ![r] = "done"]
    /\ UNCHANGED <<phase, model, vectorizer, locals, calls, pureVars>>

test_sms ==
    << Text("Rs 200 spent on Pizza Hut order"),
       Text("Rs 50 paid for bus fare"),
       Text("Rs 1500 emergency doctor fees") >>

\* One turn of the loop of test_api (lines 149-165).
test_one(sms) ==
    LET vector == transform(vectorizer, preprocess_text(sms))
        prediction == predict(model, vector.val)
        probabilities == predict_proba(model, vector.val)
    IN IF ~vector.ok THEN [sms |-> sms, error |-> vector.str]
       ELSE IF ~prediction.ok THEN [sms |-> sms, error |-> prediction.str]
       ELSE IF ~probabilities.ok THEN [sms |-> sms, error |-> probabilities.str]
       ELSE [sms |-> sms, category |-> prediction.val,
             confidence |-> round2(Max(Range(probabilities.val)))]

test_api(r) ==
    /\ phase = "serving"
    /\ pc[r] = "idle"
    /\ request' = [request EXCEPT ![r] = [route |-> "/test"]]
    /\ resp' = [resp EXCEPT ![r] =
                  IF model = None
                  THEN Response(500, [error |-> "Model not loaded"])
                  ELSE Response(200,
                          [test_results |-> [i \in DOMAIN test_sms |-> test_one(test_sms[i])],
                           model_status |-> "working"])]
    /\ pc' = [pc EXCEPT ![r] = "done"]
    /\ UNCHANGED <<phase, model, vectorizer, locals, calls, pureVars>>

Next ==
    \/ LoadModel
    \/ LoadModelFails
    \/ LoadVectorizer
    \/ LoadVectorizerFails
    \/ \E r \in Threads :
         \/ home(r)
         \/ CheckModel(r)
         \/ GetText(r)
         \/ Classify(r)
         \/ Respond(r)
         \/ Reply(r)
         \/ test_api(r)

Spec == Init /\ [][Next]_vars

(***************************************************************************)
(* Properties of the server.                                               *)
(***************************************************************************)
Categorize(r) == request[r].route = "/categorize"

\* The body carries a string under sms_text.
UsableText(b) ==
    /\ b.t = "object"
    /\ "sms_text" \in DOMAIN b.v
    /\ b.v.sms_text.t = "str"

\* C1: with model or vectorizer None, every call of categorize_sms, whatever
\* its body, ends at once in the 500 "Model not loaded properly" failure, with
\* success false and no category, having called neither get_json,
\* preprocess_text, the vectorizer, the model nor an extractor.
C1_UnavailableFailsFast ==
    ModelUnavailable =>
        \A r \in Threads :
            Categorize(r) =>
                /\ pc[r] = "done"
                /\ calls[r] = {}
                /\ resp[r] = [status |-> 500,
                              json |-> [error |-> "Model not loaded properly",
                                        success |-> FALSE]]
                /\ "category" \notin DOMAIN resp[r].json

\* C1 witness: the load failed and a well-formed request was answered.
C1_Witness ==
    /\ model = None
    /\ \E r \in Threads :
         /\ pc[r] = "done"
         /\ Categorize(r)
         /\ UsableText(request[r].body)
         /\ resp[r].status = 500

\* A call of categorize_sms that has ended, with the classifier loaded and a
\* body without a usable text.
MalformedDone(r) ==
    /\ pc[r] = "done"
    /\ Categorize(r)
    /\ ~ModelUnavailable
    /\ ~UsableText(request[r].body)

\* C2: with the classifier loaded, a request without a usable text (no body,
\* no sms_text, sms_text not a string) gets a failure of one and the same
\* status, which is not the status of the "model unavailable" failure.
C2_MalformedInputDistinct ==
    \A r \in Threads :
        MalformedDone(r) =>
            /\ resp[r].json.success = FALSE
            /\ resp[r].status # 500
            /\ \A q \in Threads : MalformedDone(q) => resp[q].status = resp[r].status

\* C3: an exception raised by vectorizer.transform, model.predict or
\* model.predict_proba is what the caller of categorize_sms gets, not a
\* response built from it.
C3_ClassifierFailurePropagates ==
    \A r \in Threads :
        (/\ pc[r] = "done"
         /\ Categorize(r)
         /\ ~locals[r].e.ok
         /\ "vectorizer.transform" \in calls[r])
            => resp[r] = locals[r].e

\* What one call of categorize_sms with the text s returns when it runs alone.
Alone(s) ==
    LET text_vector == transform(vectorizer, preprocess_text(s))
        prediction == predict(model, text_vector.val)
        probabilities == predict_proba(model, text_vector.val)
    IN IF ModelUnavailable THEN [status |-> 500,
                                 json |-> [error |-> "Model not loaded properly",
                                           success |-> FALSE]]
       ELSE IF ~text_vector.ok THEN [status |-> 500,
                                     json |-> [error |-> text_vector.str, success |-> FALSE]]
       ELSE IF ~prediction.ok THEN [status |-> 500,
                                    json |-> [error |-> prediction.str, success |-> FALSE]]
       ELSE [status |-> 200,
             json |-> [success |-> TRUE, category |-> prediction.val,
                       confidence |-> round2(Max(Range(probabilities.val))),
                       amount |-> extract_amount_from_sms(s),
                       merchant |-> extract_merchant_from_sms(s),
                       original_text |-> s, processed_at |-> "now"]]

\* C9: once the server serves, no step of any handler changes model or
\* vectorizer, and every call of categorize_sms on a text, however it is
\* interleaved with the other threads, ends with what it returns alone.
C9_HandlersShareNothing ==
    [][phase = "serving" =>
          /\ model' = model
          /\ vectorizer' = vectorizer
          /\ \A r \in Threads :
               (/\ pc'[r] = "done"
                /\ request'[r].route = "/categorize"
                /\ UsableText(request'[r].body))
                   => resp'[r] = Alone(request'[r].body.v.sms_text.v)]_vars

\* C9 witness: one call has returned a category while another call, on a
\* different text, is between its preprocessing and its classification.
C9_Witness ==
    /\ pc[1] = "done"
    /\ Categorize(1)
    /\ resp[1].status = 200
    /\ pc[2] = "classify"
    /\ request[2].body # request[1].body

\* C10: after the load block model is None exactly when vectorizer is None,
\* so the model_loaded flag of home and the model-only check of test_api
\* agree with the model-or-vectorizer check of categorize_sms.
C10_LoadAllOrNothing ==
    phase = "serving" =>
        /\ (model = None) <=> (vectorizer = None)
        /\ \A r \in Threads :
             pc[r] = "done" =>
                /\ request[r].route = "/" =>
                      (resp[r].json.model_loaded <=> ~ModelUnavailable)
                /\ request[r].route = "/test" =>
                      ((resp[r].status = 500) <=> ModelUnavailable)
                /\ Categorize(r) =>
                      ((resp[r].status = 500 /\
                          resp[r].json.error = "Model not loaded properly")
                          <=> (model = None))

\* C10 witness: the load failed, home reports model_loaded false and
\* categorize_sms reports the model as not loaded.
C10_Witness ==
    /\ phase = "serving"
    /\ vectorizer = None
    /\ pc[1] = "done"
    /\ request[1].route = "/"
    /\ ~resp[1].json.model_loaded
    /\ pc[2] = "done"
    /\ Categorize(2)

(***************************************************************************)
(* The pure functions applied to inputs drawn from bounded sets.           *)
(***************************************************************************)
\* Every text made of at most n pieces of T.
TextsOf(T, n) == {Flatten(ws) : ws \in UNION {[1..k -> T] : k \in 0..n}}

ServerIdle ==
    /\ phase = "load_model"
    /\ model = "unbound"
    /\ vectorizer = "unbound"
    /\ pc = <<>>
    /\ request = <<>>
    /\ locals = <<>>
    /\ calls = <<>>
    /\ resp = <<>>

\* ---- preprocess_text
MaxNormLen == 4

\* a B 7 _ . space, the no-break space U+00A0, capital I with dot U+0130,
\* capital sigma U+03A3 and the Arabic-Indic digit three U+0663.
NormAlphabet ==
    {ord("a"), ord("B"), ord("7"), Underscore, Dot, Space, 160, 304, 931, 1635}

InitNormalizer ==
    /\ ServerIdle
    /\ input \in TextsOf({<<c>> : c \in NormAlphabet}, MaxNormLen)
    /\ output = <<>>
    /\ called = "none"

Preprocess ==
    /\ called = "none"
    /\ called' = "preprocess_text"
    /\ output' = preprocess_text(input)
    /\ UNCHANGED input
    /\ UNCHANGED serverVars

\* The output handed to preprocess_text once more: output becomes the pair
\* <<first result, second result>>.
PreprocessAgain ==
    /\ called = "preprocess_text"
    /\ called' = "preprocess_text twice"
    /\ output' = <<output, preprocess_text(output)>>
    /\ UNCHANGED input
    /\ UNCHANGED serverVars

NextNormalizer == Preprocess \/ PreprocessAgain

SpecNormalizer == InitNormalizer /\ [][NextNormalizer]_vars

\* ---- extract_amount_from_sms
MaxAmountPieces == 3

\* 8377 is the rupee sign, 160 the no-break space, 1635 the Arabic-Indic
\* digit three.  (No text holds CurrencySymbol once it is lower-cased:
\* U+00C7 is a capital letter.)
AmountPieces ==
    { Text("Rs "), Text("rs."), Text("INR"), <<8377>>,
      Text("amount"), Text("Debited "), Text("spent 5 "),
      <<160>>, Text("0"), Text("7"), Text("1,500.50"), <<1635>> }

InitAmount ==
    /\ ServerIdle
    /\ input \in TextsOf(AmountPieces, MaxAmountPieces)
    /\ output = <<>>
    /\ called = "none"

ExtractAmount ==
    /\ called = "none"
    /\ called' = "extract_amount_from_sms"
    /\ output' = extract_amount_from_sms(input)
    /\ UNCHANGED input
    /\ UNCHANGED serverVars

NextAmount == ExtractAmount

SpecAmount == InitAmount /\ [][NextAmount]_vars

\* ---- extract_merchant_from_sms
MaxMerchantPieces == 3

\* 383 is the long s U+017F, a lower-case letter whose capital is S.
MerchantPieces ==
    { Text("swiggy"), Text("SWIGGY"), Text("ola"), Text("Uber"), Text("big"),
      Text("Bazaar"), Text("dmart"), Text(" "), <<383>>, Text("wiggy"),
      Text("order") }

InitMerchant ==
    /\ ServerIdle
    /\ input \in TextsOf(MerchantPieces, MaxMerchantPieces)
    /\ output = <<>>
    /\ called = "none"

ExtractMerchant ==
    /\ called = "none"
    /\ called' = "extract_merchant_from_sms"
    /\ output' = extract_merchant_from_sms(input)
    /\ UNCHANGED input
    /\ UNCHANGED serverVars

\* The text in capitals, for texts of ASCII characters and long s (what
\* str.upper() gives them).
Capitals(s) ==
    [i \in 1..Len(s) |-> IF s[i] \in 97..122 THEN s[i] - 32
                         ELSE IF s[i] = 383 THEN ord("S")
                         ELSE s[i]]

\* The same text in another letter-casing: output becomes the triple
\* <<result for input, the re-cased text, result for the re-cased text>>.
ExtractMerchantRecased ==
    /\ called = "extract_merchant_from_sms"
    /\ \E recased \in {str_lower(input), Capitals(input)} :
          output' = <<output, recased, extract_merchant_from_sms(recased)>>
    /\ called' = "extract_merchant_from_sms recased"
    /\ UNCHANGED input
    /\ UNCHANGED serverVars

NextMerchant == ExtractMerchant \/ ExtractMerchantRecased

SpecMerchant == InitMerchant /\ [][NextMerchant]_vars

(***************************************************************************)
(* Properties of the pure functions.                                       *)
(***************************************************************************)
\* What each pattern (1..5) captures in the lower-cased input, or NoMatch.
Captures == [k \in 1..NumPatterns |-> re_search_group1(k, str_lower(input))]

AmountReturned == called = "extract_amount_from_sms"

\* C4 (as stated): the first pattern, in the order 1..5, that matches decides
\* the result, a currency-marker pattern (1, 2) beats a keyword pattern
\* (3, 4, 5), and the result is 0.0 exactly when no pattern matches.
C4_FirstMatchWins_ZeroIffNoMatch ==
    AmountReturned =>
        LET c == Captures
            value(k) == float(strip_commas(c[k]))
        IN /\ \A k \in 1..NumPatterns :
                (c[k] # NoMatch /\ \A j \in 1..(k - 1) : c[j] = NoMatch)
                    => output = value(k)
           /\ (output = 0) <=> (\A k \in 1..NumPatterns : c[k] = NoMatch)

\* C4 (amended): the first pattern, in the order 1..5, that matches decides
\* the result; when a currency-marker pattern and a keyword pattern both match
\* the result is the value of the first currency-marker pattern that matches;
\* when no pattern matches the result is 0.0.
C4_FirstMatchWins ==
    AmountReturned =>
        LET c == Captures
            value(k) == float(strip_commas(c[k]))
        IN /\ \A k \in 1..NumPatterns :
                (c[k] # NoMatch /\ \A j \in 1..(k - 1) : c[j] = NoMatch)
                    => output = value(k)
           /\ ((c[1] # NoMatch \/ c[2] # NoMatch)
                 /\ (c[3] # NoMatch \/ c[4] # NoMatch \/ c[5] # NoMatch))
                => output = (IF c[1] # NoMatch THEN value(1) ELSE value(2))
           /\ (\A k \in 1..NumPatterns : c[k] = NoMatch) => output = 0

\* C4 witness: a keyword pattern and a currency-marker pattern both match,
\* with different values, and the currency-marker value was returned.
C4_Witness ==
    /\ AmountReturned
    /\ LET c == Captures
       IN /\ c[1] # NoMatch
          /\ c[5] # NoMatch
          /\ float(strip_commas(c[5])) # float(strip_commas(c[1]))
          /\ output = float(strip_commas(c[1]))
          /\ output > 0

\* Where a number starts after a rupee sign at p and optional whitespace.
RupeeNumberStarts(s, p) ==
    IF At(s, p) = 8377
    THEN {q \in SpaceEnds(s, p + 1) : IsDigit(At(s, q))}
    ELSE {}

\* C5: when the leftmost currency marker followed by a number is the rupee
\* sign U+20B9, extract_amount_from_sms returns that number with its
\* thousands separators stripped ("U+20B9 1,500.50 ..." gives 1500.50).
C5_RupeeSignIsMarker ==
    AmountReturned =>
        LET s == str_lower(input)
            rupee == {p \in 1..Len(s) : RupeeNumberStarts(s, p) # {}}
            other == {p \in 1..Len(s) : MarkerNumberStarts(s, p) # {}}
        IN (rupee # {} /\ \A p \in other : Min(rupee) < p) =>
              LET q == CHOOSE x \in RupeeNumberStarts(s, Min(rupee)) : TRUE
              IN output = float(strip_commas(SubSeq(s, q, NumberEnd(s, q) - 1)))

\* An alphanumeric character that lower-casing leaves as it is.
LowerAlnum(c) == IsAlnum(c) /\ str_lower(<<c>>) = <<c>>

\* C6: the output of preprocess_text holds only lowercase letters, digits and
\* single spaces, has no space at either end, and is empty for the empty input.
C6_OnlyLowerAlnumAndSingleSpaces ==
    called = "preprocess_text" =>
        /\ \A i \in 1..Len(output) :
              LowerAlnum(output[i]) \/ output[i] = Space
        /\ \A i \in 1..(Len(output) - 1) : ~(output[i] = Space /\ output[i+1] = Space)
        /\ output # <<>> => (output[1] # Space /\ output[Len(output)] # Space)
        /\ input = <<>> => output = <<>>

\* C7: preprocess_text(preprocess_text(x)) = preprocess_text(x).
C7_Idempotent ==
    called = "preprocess_text twice" => output[2] = output[1]

\* C7 witness: the first application changed the input, to a text of two
\* words, and the second application was made.
C7_Witness ==
    /\ called = "preprocess_text twice"
    /\ output[1] # input
    /\ Len(str_split(output[1])) = 2

\* The vocabulary entries the lower-cased input contains.
FoundMerchants == {i \in DOMAIN merchants : Contains(str_lower(input), merchants[i])}

\* C8 (as stated): the result is the title-cased first entry, in list order,
\* that the lower-cased text contains ("big bazaar" gives "Big Bazaar"); it
\* is "Unknown Merchant" exactly when no entry is contained; and it is the
\* same for another letter-casing of the text.
C8_FirstListedMerchant_AnyCasing ==
    /\ called = "extract_merchant_from_sms" =>
          /\ \A i \in FoundMerchants :
                (\A j \in FoundMerchants : i <= j) => output = str_title(merchants[i])
          /\ FoundMerchants = {12} => output = Text("Big Bazaar")
          /\ (output = UnknownMerchant) <=> (FoundMerchants = {})
    /\ called = "extract_merchant_from_sms recased" => output[3] = output[1]

\* C8 (amended): as above, the result being the same for another
\* letter-casing of a text of ASCII characters, and for any two texts with
\* the same lower-cased form.
C8_FirstListedMerchant ==
    /\ called = "extract_merchant_from_sms" =>
          /\ \A i \in FoundMerchants :
                (\A j \in FoundMerchants : i <= j) => output = str_title(merchants[i])
          /\ FoundMerchants = {12} => output = Text("Big Bazaar")
          /\ (output = UnknownMerchant) <=> (FoundMerchants = {})
    /\ called = "extract_merchant_from_sms recased" =>
          (((\A i \in 1..Len(input) : input[i] < 128)
               \/ str_lower(output[2]) = str_lower(input))
              => output[3] = output[1])

\* C8 witness: two entries are contained, the later-listed one further to the
\* left in the text, and the earlier-listed one was returned.
C8_Witness ==
    /\ called = "extract_merchant_from_sms"
    /\ FoundMerchants = {6, 7}
    /\ HasPrefixAt(str_lower(input), 1, merchants[7])
    /\ output = Text("Uber")

====
